---- MODULE Spec2Model ----
(***************************************************************************)
(* Model of the Z.ai provider adapter (crates/goose/src/providers/zai.rs): *)
(* one logical call at a time on one adapter, either the batch entry point *)
(* complete_with_model (POST under with_retry, decode, log) or the         *)
(* streaming entry point stream (one POST, then a lazily pulled sequence   *)
(* of snapshots).  The vendor, the logging collaborator and the consumer   *)
(* are the environment: their outcomes are chosen nondeterministically.    *)
(* Text is a sequence of characters, so that concatenation and the prefix  *)
(* order are computed, not assumed.                                        *)
(***************************************************************************)
EXTENDS Integers, Sequences, FiniteSets, TLC

VARIABLES
    maxAttempts,  \* the retry policy's maximum number of physical attempts
    pc,           \* position of the current logical call
    mode,         \* "none", "batch" or "stream": entry point of the current call
    args,         \* <<[cfg, system, messages, tools]>> of the current call
    payload,      \* <<payload>> built by create_request for the current call
    attempts,     \* physical POSTs issued by the current call
    inflight,     \* physical POSTs sent and not yet answered
    history,      \* vendor answers received by the current call, in order
    log,          \* operations performed on the RequestLog of the current call
    result,       \* what the entry point returned to its caller
    frames,       \* frames the streaming decoder has consumed, in order
    acc,          \* the decoder's accumulator: text built so far
    usage,        \* the decoder's usage so far
    emitted,      \* items the returned sequence has yielded to the consumer
    sstate,       \* the returned sequence: "none", "open", "ended", "failed", "dropped"
    sentBatch,    \* <<[args, payload]>> of the last batch POST on this adapter
    sentStream,   \* <<[args, payload]>> of the last streaming POST
    calls,        \* logical calls started on this adapter
    conc,         \* the per-call state of batch calls that run concurrently
    cli           \* the configuration store and the configuration commands

vars == <<maxAttempts, pc, mode, args, payload, attempts, inflight, history,
          log, result, frames, acc, usage, emitted, sstate, sentBatch, sentStream, calls,
          conc, cli>>

----------------------------------------------------------------------------
(* Bounds of the model *)

MaxN == 3

MaxFrames == 4

MaxCalls == 2

----------------------------------------------------------------------------
(* Values *)

Absent == 0 - 1

NoUsage == [input |-> Absent, output |-> Absent]

NoErr == [kind |-> "none", cause |-> "none", status |-> 0, body |-> "none"]

RequestFailed(cause, status, body) ==
    [kind |-> "RequestFailed", cause |-> cause, status |-> status, body |-> body]

\* `?` on an anyhow::Result inside a function returning ProviderError
FromAnyhow(cause) ==
    [kind |-> "ExecutionError", cause |-> cause, status |-> 0, body |-> "none"]

Pending == [state |-> "pending", err |-> NoErr, text |-> <<>>, usage |-> NoUsage, model |-> "none"]

Ok(text, u, model) == [state |-> "ok", err |-> NoErr, text |-> text, usage |-> u, model |-> model]

Err(e) == [state |-> "err", err |-> e, text |-> <<>>, usage |-> NoUsage, model |-> "none"]

Last(s) == s[Len(s)]

IsPrefix(s, t) == Len(s) <= Len(t) /\ SubSeq(t, 1, Len(s)) = s

----------------------------------------------------------------------------
(* The adapter and the inputs of a call *)

ZAI_DEFAULT_MODEL == "glm-4.5"

ZAI_DEFAULT_FAST_MODEL == "glm-4.5-air"

DefaultMaxTokens == 8192

\* self.model: the ModelConfig the adapter was constructed with
SelfModel == [model_name |-> ZAI_DEFAULT_MODEL, max_tokens |-> DefaultMaxTokens]

\* model configs a caller can pass to complete_with_model
ModelConfigs ==
    { SelfModel,
      [model_name |-> ZAI_DEFAULT_FAST_MODEL, max_tokens |-> DefaultMaxTokens] }

Systems == {"", "You are a helpful assistant."}

MessageLists == { << [role |-> "user", text |-> "Hello"] >> }

ToolLists == { <<>>, << "shell" >> }

\* formats::anthropic::create_request: the Request Translator
create_request(cfg, system, messages, tools) ==
    IF system = ""
    THEN [model |-> cfg.model_name, max_tokens |-> cfg.max_tokens,
          messages |-> messages, tools |-> tools]
    ELSE [model |-> cfg.model_name, max_tokens |-> cfg.max_tokens,
          messages |-> messages, tools |-> tools, system |-> system]

\* insert_stream with the flag written as false
insert_stream_false(p) ==
    [k \in DOMAIN p \cup {"stream"} |-> IF k = "stream" THEN FALSE ELSE p[k]]

\* payload.as_object_mut().unwrap().insert("stream", Bool(true))
insert_stream(p) ==
    [k \in DOMAIN p \cup {"stream"} |-> IF k = "stream" THEN TRUE ELSE p[k]]

stream_payload(system, messages, tools) ==
    insert_stream(create_request(SelfModel, system, messages, tools))

----------------------------------------------------------------------------
(* The vendor's answers to a batch POST *)

\* bodies of a 2xx answer: a document with text and usage, a document with
\* no content array, documents of the wrong shape, and bytes that are not JSON
OkBodies == {"valid", "nocontent", "badmessage", "badusage", "notjson"}

\* bodies of a non-2xx answer
ErrBodies == {"e1", "e2"}

NoResponse == [transport |-> "connect_failed", status |-> 0, body |-> "none"]

Responses ==
    {NoResponse}
    \cup { [transport |-> "body_failed", status |-> 200, body |-> "none"] }
    \cup { [transport |-> "ok", status |-> 200, body |-> b] : b \in OkBodies }
    \cup { [transport |-> "ok", status |-> s, body |-> b] : s \in {400, 429, 500}, b \in ErrBodies }

\* http::StatusCode::is_success
is_success(status) == status >= 200 /\ status < 300

\* serde_json::from_str::<Value>: which bodies parse as JSON
IsJson(body) == body \in {"valid", "nocontent", "badmessage", "badusage"}

\* post without the status check of lines 83-88: the body is parsed whatever
\* the status
post_ignoring_status(resp) ==
    IF resp.transport # "ok"
    THEN [ok |-> FALSE, json |-> "none", err |-> RequestFailed("transport", 0, "none")]
    ELSE IF ~IsJson(resp.body)
    THEN [ok |-> FALSE, json |-> "none", err |-> RequestFailed("parse", 0, "none")]
    ELSE [ok |-> TRUE, json |-> resp.body, err |-> NoErr]

\* ZaiProvider::post: one physical attempt, [ok, json, err]
post(resp) ==
    IF resp.transport = "connect_failed"
    THEN [ok |-> FALSE, json |-> "none", err |-> RequestFailed("transport", 0, "none")]
    ELSE IF resp.transport = "body_failed"
    THEN [ok |-> FALSE, json |-> "none", err |-> RequestFailed("transport", 0, "none")]
    ELSE IF ~is_success(resp.status)
    THEN [ok |-> FALSE, json |-> "none", err |-> RequestFailed("status", resp.status, resp.body)]
    ELSE IF ~IsJson(resp.body)
    THEN [ok |-> FALSE, json |-> "none", err |-> RequestFailed("parse", 0, "none")]
    ELSE [ok |-> TRUE, json |-> resp.body, err |-> NoErr]

\* the retry policy's decision function: transport failures, rate limits and
\* 5xx answers are transient, every other failure is fatal
should_retry(e) ==
    \/ e.cause = "transport"
    \/ e.cause = "status" /\ (e.status = 429 \/ (e.status >= 500 /\ e.status < 600))

\* with_retry counting the retries from zero: one attempt too many
with_retry_one_more(e, n, max) == should_retry(e) /\ n <= max

\* ProviderRetry::with_retry after a failed attempt: retry or give up
with_retry_continues(e, n, max) == should_retry(e) /\ n < max

\* formats::anthropic::response_to_message: [ok, text]
response_to_message(json) ==
    IF json = "valid" \/ json = "badusage" THEN [ok |-> TRUE, text |-> <<"O", "K">>]
    ELSE IF json = "nocontent" THEN [ok |-> TRUE, text |-> <<>>]
    ELSE [ok |-> FALSE, text |-> <<>>]

\* formats::anthropic::get_usage: [ok, usage]
get_usage(json) ==
    IF json = "valid" \/ json = "badmessage" THEN [ok |-> TRUE, usage |-> [input |-> 5, output |-> 1]]
    ELSE IF json = "nocontent" THEN [ok |-> TRUE, usage |-> NoUsage]
    ELSE [ok |-> FALSE, usage |-> NoUsage]

\* a RequestLog operation and whether it succeeded; about is the attempt whose
\* outcome it carries (0 for start, which carries the request payload only)
LogOp(op, about, okk) == [op |-> op, about |-> about, okk |-> okk]

\* lines 149-155 with the decode errors defaulted instead of propagated
decode_and_write_default(json, cfg, logOk) ==
    IF ~logOk /\ response_to_message(json).ok /\ get_usage(json).ok
    THEN Err(FromAnyhow("log_write"))
    ELSE Ok(response_to_message(json).text, get_usage(json).usage, cfg.model_name)

\* lines 149-155 without the map_err: the decode errors converted by `?`
decode_and_write_anyhow(json, cfg, logOk) ==
    IF ~response_to_message(json).ok THEN Err(FromAnyhow("decode"))
    ELSE IF ~get_usage(json).ok THEN Err(FromAnyhow("decode"))
    ELSE IF ~logOk THEN Err(FromAnyhow("log_write"))
    ELSE Ok(response_to_message(json).text, get_usage(json).usage, cfg.model_name)

\* complete_with_model, lines 149-155: what it returns once with_retry gave json
decode_and_write(json, cfg, logOk) ==
    IF ~response_to_message(json).ok THEN Err(RequestFailed("decode", 0, "none"))
    ELSE IF ~get_usage(json).ok THEN Err(RequestFailed("decode", 0, "none"))
    ELSE IF ~logOk THEN Err(FromAnyhow("log_write"))
    ELSE Ok(response_to_message(json).text, get_usage(json).usage, cfg.model_name)

\* whether lines 149-155 reach log.write
reaches_write(json) == response_to_message(json).ok /\ get_usage(json).ok

----------------------------------------------------------------------------
(* The batch entry point *)

\* no concurrent calls are running
NoConc == <<>>

\* the configuration commands are not in use
NoCli == <<>>

Init ==
    /\ maxAttempts = 1
    /\ pc = "idle"
    /\ mode = "none"
    /\ args = <<>>
    /\ payload = <<>>
    /\ attempts = 0
    /\ inflight = 0
    /\ history = <<>>
    /\ log = <<>>
    /\ result = Pending
    /\ frames = <<>>
    /\ acc = <<>>
    /\ usage = NoUsage
    /\ emitted = <<>>
    /\ sstate = "none"
    /\ sentBatch = <<>>
    /\ sentStream = <<>>
    /\ calls = 0
    /\ conc = NoConc
    /\ cli = NoCli

\* a new logical call starts with fresh per-call state
FreshCall(m, a, p) ==
    /\ mode' = m
    /\ args' = <<a>>
    /\ payload' = <<p>>
    /\ history' = <<>>
    /\ frames' = <<>>
    /\ acc' = <<>>
    /\ usage' = NoUsage
    /\ emitted' = <<>>
    /\ sstate' = "none"
    /\ calls' = calls + 1

\* complete_with_model, lines 136-138: build the payload, RequestLog::start
complete_with_model(n, cfg, system, messages, tools, logOk) ==
    /\ pc = "idle"
    /\ calls < MaxCalls
    /\ maxAttempts' = n
    /\ attempts' = 0
    /\ FreshCall("batch",
                 [cfg |-> cfg, system |-> system, messages |-> messages, tools |-> tools],
                 create_request(cfg, system, messages, tools))
    /\ log' = << LogOp("start", 0, logOk) >>
    /\ IF logOk
       THEN pc' = "attempt" /\ result' = Pending
       ELSE pc' = "done" /\ result' = Err(FromAnyhow("log_start"))
    /\ UNCHANGED <<inflight, sentBatch, sentStream>>
    /\ UNCHANGED <<conc, cli>>

\* with_retry calls the closure: self.post sends the POST
post_send ==
    /\ pc = "attempt"
    /\ pc' = "await"
    /\ attempts' = attempts + 1
    /\ inflight' = inflight + 1
    /\ sentBatch' = << [args |-> args[1], payload |-> payload[1]] >>
    /\ UNCHANGED <<maxAttempts, mode, args, payload, history, log, result,
                   frames, acc, usage, emitted, sstate, sentStream, calls>>
    /\ UNCHANGED <<conc, cli>>

\* the answer arrives: post classifies it, with_retry retries or returns,
\* and complete_with_model logs, decodes and returns
post_recv(resp, logOk) ==
    /\ pc = "await"
    /\ inflight' = inflight - 1
    /\ history' = Append(history, resp)
    /\ IF post(resp).ok
       THEN /\ pc' = "done"
            /\ result' = decode_and_write(post(resp).json, args[1].cfg, logOk)
            /\ log' = IF reaches_write(post(resp).json)
                      THEN Append(log, LogOp("write", attempts, logOk))
                      ELSE log
       ELSE IF with_retry_continues(post(resp).err, attempts, maxAttempts)
       THEN /\ pc' = "backoff"
            /\ UNCHANGED <<result, log>>
       ELSE /\ pc' = "done"
            /\ result' = Err(post(resp).err)
            /\ log' = Append(log, LogOp("error", attempts, logOk))
    /\ UNCHANGED <<maxAttempts, mode, args, payload, attempts,
                   frames, acc, usage, emitted, sstate, sentBatch, sentStream, calls>>
    /\ UNCHANGED <<conc, cli>>

\* with_retry sleeps between attempts
backoff ==
    /\ pc = "backoff"
    /\ pc' = "attempt"
    /\ UNCHANGED <<maxAttempts, mode, args, payload, attempts, inflight, history, log,
                   result, frames, acc, usage, emitted, sstate, sentBatch, sentStream, calls>>
    /\ UNCHANGED <<conc, cli>>

\* the caller has its result and may start another call on the same adapter
call_returns ==
    /\ pc = "done"
    /\ pc' = "idle"
    /\ mode' = "none"
    /\ args' = <<>>
    /\ payload' = <<>>
    /\ maxAttempts' = 1
    /\ attempts' = 0
    /\ history' = <<>>
    /\ log' = <<>>
    /\ result' = Pending
    /\ frames' = <<>>
    /\ acc' = <<>>
    /\ usage' = NoUsage
    /\ emitted' = <<>>
    /\ sstate' = "none"
    /\ UNCHANGED <<inflight, sentBatch, sentStream, calls>>
    /\ UNCHANGED <<conc, cli>>


----------------------------------------------------------------------------
(* The streaming entry point *)

\* the vendor's answers to the streaming POST: no answer, or a status line
StreamResponses ==
    {NoResponse}
    \cup { [transport |-> "ok", status |-> 200, body |-> "none"] }
    \cup { [transport |-> "ok", status |-> s, body |-> b] : s \in {400, 429, 500}, b \in ErrBodies }

\* what the line reader hands the decoder: an event frame, a frame that is
\* not a valid event, a transport failure, or the end of the byte stream
Frame(kind, text, n) == [kind |-> kind, text |-> text, n |-> n]

EventFrames ==
    { Frame("message_start", <<>>, 10),
      Frame("content_delta", <<"O">>, 0),
      Frame("content_delta", <<"K">>, 0),
      Frame("message_delta", <<>>, 1) }

TerminalFrames ==
    { Frame("message_stop", <<>>, 0),
      Frame("malformed", <<>>, 0),
      Frame("io_error", <<>>, 0),
      Frame("eof", <<>>, 0) }

\* formats::anthropic::response_to_streaming_message, one step: the decoder
\* applies the frame f to its accumulator and emits a snapshot, fails, or ends
decode_frame(a, u, f) ==
    IF f.kind = "message_start"
    THEN [out |-> "snapshot", acc |-> <<>>, usage |-> [input |-> f.n, output |-> Absent], detail |-> "none"]
    ELSE IF f.kind = "content_delta"
    THEN [out |-> "snapshot", acc |-> a \o f.text, usage |-> u, detail |-> "none"]
    ELSE IF f.kind = "message_delta"
    THEN [out |-> "snapshot", acc |-> a, usage |-> [u EXCEPT !.output = f.n], detail |-> "none"]
    ELSE IF f.kind = "message_stop"
    THEN [out |-> "end", acc |-> a, usage |-> u, detail |-> "none"]
    ELSE IF f.kind = "malformed"
    THEN [out |-> "error", acc |-> a, usage |-> u, detail |-> "malformed frame"]
    ELSE IF f.kind = "io_error"
    THEN [out |-> "error", acc |-> a, usage |-> u, detail |-> "transport"]
    ELSE [out |-> "error", acc |-> a, usage |-> u, detail |-> "incomplete stream"]

Snapshot(text, u) == [ok |-> TRUE, err |-> NoErr, text |-> text, usage |-> u]

ErrItem(e) == [ok |-> FALSE, err |-> e, text |-> <<>>, usage |-> NoUsage]

\* lines 198-202 with the decoder's errors ending the loop instead of being
\* yielded (while let Some(Ok(..)))
stream_step_swallow(d, logOk) ==
    IF d.out = "end" \/ d.out = "error" THEN [do |-> "end", item |-> ErrItem(NoErr)]
    ELSE IF ~logOk THEN [do |-> "fail", item |-> ErrItem(FromAnyhow("log_write"))]
    ELSE [do |-> "yield", item |-> Snapshot(d.acc, d.usage)]

\* lines 198-202 with a snapshot whose log.write failed skipped instead of
\* ending the sequence
stream_step_skip(d, logOk) ==
    IF d.out = "end" THEN [do |-> "end", item |-> ErrItem(NoErr)]
    ELSE IF d.out = "error"
    THEN [do |-> "fail", item |-> ErrItem(RequestFailed("stream_decode", 0, d.detail))]
    ELSE IF ~logOk THEN [do |-> "skip", item |-> ErrItem(NoErr)]
    ELSE [do |-> "yield", item |-> Snapshot(d.acc, d.usage)]

\* lines 198-202 with a decoder error answered by yielding the accumulator
\* once more instead of the error
stream_step_stale(d, logOk) ==
    IF d.out = "end" THEN [do |-> "end", item |-> ErrItem(NoErr)]
    ELSE IF d.out = "error" THEN [do |-> "fail", item |-> Snapshot(d.acc, d.usage)]
    ELSE IF ~logOk THEN [do |-> "fail", item |-> ErrItem(FromAnyhow("log_write"))]
    ELSE [do |-> "yield", item |-> Snapshot(d.acc, d.usage)]

\* lines 198-202 yielding the message without the usage
stream_step_no_usage(d, logOk) ==
    IF d.out = "end" THEN [do |-> "end", item |-> ErrItem(NoErr)]
    ELSE IF d.out = "error"
    THEN [do |-> "fail", item |-> ErrItem(RequestFailed("stream_decode", 0, d.detail))]
    ELSE IF ~logOk THEN [do |-> "fail", item |-> ErrItem(FromAnyhow("log_write"))]
    ELSE [do |-> "yield", item |-> Snapshot(d.acc, NoUsage)]

\* lines 198-202 with a failed log.write reported as an item while the loop
\* goes on
stream_step_goes_on(d, logOk) ==
    IF d.out = "end" THEN [do |-> "end", item |-> ErrItem(NoErr)]
    ELSE IF d.out = "error"
    THEN [do |-> "fail", item |-> ErrItem(RequestFailed("stream_decode", 0, d.detail))]
    ELSE IF ~logOk THEN [do |-> "yield", item |-> ErrItem(FromAnyhow("log_write"))]
    ELSE [do |-> "yield", item |-> Snapshot(d.acc, d.usage)]

\* stream, lines 198-202: what the returned sequence does with the decoder's
\* step d: "yield" an item and go on, "fail" with a last item, or "end"
stream_step(d, logOk) ==
    IF d.out = "end" THEN [do |-> "end", item |-> ErrItem(NoErr)]
    ELSE IF d.out = "error"
    THEN [do |-> "fail", item |-> ErrItem(RequestFailed("stream_decode", 0, d.detail))]
    ELSE IF ~logOk THEN [do |-> "fail", item |-> ErrItem(FromAnyhow("log_write"))]
    ELSE [do |-> "yield", item |-> Snapshot(d.acc, d.usage)]

\* stream, lines 164-181: build the payload, RequestLog::start, send the POST
stream(system, messages, tools, logOk) ==
    /\ pc = "idle"
    /\ calls < MaxCalls
    /\ FreshCall("stream",
                 [cfg |-> SelfModel, system |-> system, messages |-> messages, tools |-> tools],
                 stream_payload(system, messages, tools))
    /\ log' = << LogOp("start", 0, logOk) >>
    /\ IF logOk
       THEN /\ pc' = "s_await"
            /\ result' = Pending
            /\ attempts' = 1
            /\ inflight' = inflight + 1
            /\ sentStream' = << [args |-> [cfg |-> SelfModel, system |-> system,
                                           messages |-> messages, tools |-> tools],
                                 payload |-> stream_payload(system, messages, tools)] >>
       ELSE /\ pc' = "done"
            /\ result' = Err(FromAnyhow("log_start"))
            /\ attempts' = 0
            /\ UNCHANGED <<inflight, sentStream>>
    /\ maxAttempts' = 1
    /\ UNCHANGED sentBatch
    /\ UNCHANGED <<conc, cli>>

\* the streaming POST retried the way the batch POST is
stream_retries_like_batch(resp, n) ==
    n < MaxN /\ (resp.transport # "ok" \/ resp.status = 429 \/ resp.status >= 500)

\* stream, lines 175-185: the POST is not wrapped in with_retry, so a failed
\* POST (answer resp, n POSTs so far) is never sent again
stream_retries(resp, n) == FALSE

\* stream, lines 175-189: the answer to the POST arrives
stream_recv(resp, logOk) ==
    /\ pc = "s_await"
    /\ history' = Append(history, resp)
    /\ IF resp.transport = "ok" /\ is_success(resp.status)
       THEN /\ pc' = "streaming"
            /\ result' = Ok(<<>>, NoUsage, SelfModel.model_name)
            /\ sstate' = "open"
            /\ inflight' = inflight - 1
            /\ UNCHANGED <<log, attempts>>
       ELSE IF stream_retries(resp, attempts)
       THEN /\ pc' = "s_await"
            /\ attempts' = attempts + 1
            /\ UNCHANGED <<result, sstate, inflight, log>>
       ELSE /\ pc' = "done"
            /\ result' = IF resp.transport = "ok"
                         THEN Err(RequestFailed("status", resp.status, resp.body))
                         ELSE Err(FromAnyhow("transport"))
            /\ log' = Append(log, LogOp("error", attempts, logOk))
            /\ inflight' = inflight - 1
            /\ UNCHANGED <<sstate, attempts>>
    /\ UNCHANGED <<maxAttempts, mode, args, payload, frames, acc, usage,
                   emitted, sentBatch, sentStream, calls>>
    /\ UNCHANGED <<conc, cli>>

\* the consumer pulls the next item of the returned sequence
poll(f, logOk) ==
    /\ pc = "streaming"
    /\ f \in EventFrames => Len(frames) < MaxFrames
    /\ frames' = Append(frames, f)
    /\ LET d == decode_frame(acc, usage, f)
           w == stream_step(d, logOk)
       IN /\ acc' = d.acc
          /\ usage' = d.usage
          /\ log' = IF d.out = "snapshot" THEN Append(log, LogOp("write", attempts, logOk)) ELSE log
          /\ emitted' = IF w.do \in {"yield", "fail"} THEN Append(emitted, w.item) ELSE emitted
          /\ sstate' = IF w.do = "end" THEN "ended" ELSE IF w.do = "fail" THEN "failed" ELSE "open"
          /\ pc' = IF w.do \in {"end", "fail"} THEN "done" ELSE "streaming"
    /\ UNCHANGED <<maxAttempts, mode, args, payload, attempts, inflight, history, result,
                   sentBatch, sentStream, calls>>
    /\ UNCHANGED <<conc, cli>>

\* the consumer drops the sequence before its end
drop_stream ==
    /\ pc = "streaming"
    /\ pc' = "done"
    /\ sstate' = "dropped"
    /\ UNCHANGED <<maxAttempts, mode, args, payload, attempts, inflight, history, log, result,
                   frames, acc, usage, emitted, sentBatch, sentStream, calls>>
    /\ UNCHANGED <<conc, cli>>

----------------------------------------------------------------------------

Next ==
    \/ \E n \in 1..MaxN, cfg \in ModelConfigs, sys \in Systems, ms \in MessageLists,
          ts \in ToolLists, logOk \in BOOLEAN :
          complete_with_model(n, cfg, sys, ms, ts, logOk)
    \/ post_send
    \/ \E resp \in Responses, logOk \in BOOLEAN : post_recv(resp, logOk)
    \/ backoff
    \/ \E sys \in Systems, ms \in MessageLists, ts \in ToolLists, logOk \in BOOLEAN :
          stream(sys, ms, ts, logOk)
    \/ \E resp \in StreamResponses, logOk \in BOOLEAN : stream_recv(resp, logOk)
    \/ \E f \in EventFrames \cup TerminalFrames, logOk \in BOOLEAN : poll(f, logOk)
    \/ drop_stream
    \/ call_returns

Spec == Init /\ [][Next]_vars


----------------------------------------------------------------------------
(* Vocabulary of the claims, stated on the raw answers and frames *)

TransientAnswer(r) ==
    \/ r.transport # "ok"
    \/ r.status = 429
    \/ r.status \in 500..599

FatalAnswer(r) ==
    /\ r.transport = "ok"
    /\ \/ r.status \notin 200..299 /\ ~TransientAnswer(r)
       \/ r.status \in 200..299 /\ r.body \in {"notjson", "badmessage", "badusage"}

GoodAnswer(r) ==
    r.transport = "ok" /\ r.status \in 200..299 /\ r.body \in {"valid", "nocontent"}

\* the error a failed answer stands for
ErrorOf(r) ==
    IF r.transport # "ok" THEN RequestFailed("transport", 0, "none")
    ELSE RequestFailed("status", r.status, r.body)

BatchDone == mode = "batch" /\ pc = "done"

RECURSIVE ConcatDeltas(_)
ConcatDeltas(fs) ==
    IF fs = <<>> THEN <<>>
    ELSE LET rest == ConcatDeltas(SubSeq(fs, 1, Len(fs) - 1))
         IN IF Last(fs).kind = "content_delta" THEN rest \o Last(fs).text ELSE rest

Snapshots(items) == SelectSeq(items, LAMBDA it : it.ok)

FinalText(items) == IF items = <<>> THEN <<>> ELSE Last(items).text

HasKind(fs, k) == \E i \in 1..Len(fs) : fs[i].kind = k

\* no message-start arrives after a content-delta
NoRestart(fs) ==
    \A i, j \in 1..Len(fs) :
        i < j => ~(fs[i].kind = "content_delta" /\ fs[j].kind = "message_start")

----------------------------------------------------------------------------
(* C1: when every answer of the vendor to a batch call is a transient failure,
   the call makes exactly maxAttempts POSTs, never more, and returns the
   failure of the last one. *)
C1_RetryBound ==
    mode = "batch" =>
        /\ attempts <= maxAttempts
        /\ (pc = "done" /\ history # <<>> /\ \A i \in 1..Len(history) : TransientAnswer(history[i]))
              => /\ attempts = maxAttempts
                 /\ Len(history) = maxAttempts
                 /\ result = Err(ErrorOf(Last(history)))

C1_Witness ==
    /\ BatchDone
    /\ maxAttempts = 3
    /\ attempts = 3
    /\ \A i \in 1..Len(history) : TransientAnswer(history[i])
    /\ history[1].status = 500
    /\ history[3].status = 429
    /\ result = Err(RequestFailed("status", 429, "e2"))

(* C2: after the answers 429, 429, 200 with a valid body the batch call has
   made exactly 3 POSTs and returns success. *)
C2_ScenarioB ==
    (/\ BatchDone
     /\ Len(history) = 3
     /\ history[1].transport = "ok" /\ history[1].status = 429
     /\ history[2].transport = "ok" /\ history[2].status = 429
     /\ history[3] = [transport |-> "ok", status |-> 200, body |-> "valid"])
    => attempts = 3 /\ result.state = "ok"

(* C3: a fatal answer (a non-2xx status that is not transient, or a 2xx body
   that does not decode) ends the batch call at once: it is the last answer,
   no POST follows it, and the call returns a RequestFailed error that
   carries the status and body of a non-2xx answer. *)
C3_FatalNotRetried ==
    mode = "batch" =>
        \A i \in 1..Len(history) :
            FatalAnswer(history[i]) =>
                /\ i = Len(history)
                /\ attempts = i
                /\ pc = "done"
                /\ result.state = "err"
                /\ result.err.kind = "RequestFailed"
                /\ history[i].status \notin 200..299 =>
                      /\ result.err.status = history[i].status
                      /\ result.err.body = history[i].body

C3_Witness ==
    /\ BatchDone
    /\ maxAttempts = 3
    /\ Len(history) = 2
    /\ history[1].status = 429
    /\ history[2] = [transport |-> "ok", status |-> 400, body |-> "e1"]
    /\ result = Err(RequestFailed("status", 400, "e1"))

C3_WitnessDecode ==
    /\ BatchDone
    /\ Len(history) = 2
    /\ history[2] = [transport |-> "ok", status |-> 200, body |-> "badmessage"]
    /\ result.state = "err"

(* C4: a streaming call never issues a second POST: after a transport
   failure or a non-success status the call has returned an error with one
   POST made, and a failure while the stream is read ends the returned
   sequence with an error item, still with one POST made. *)
C4_StreamSinglePost ==
    mode = "stream" =>
        /\ attempts <= 1
        /\ inflight <= 1
        /\ (history # <<>> /\ ~(history[1].transport = "ok" /\ history[1].status \in 200..299))
              => pc = "done" /\ result.state = "err" /\ attempts = 1 /\ Len(history) = 1
        /\ (frames # <<>> /\ Last(frames).kind = "io_error")
              => /\ attempts = 1
                 /\ pc = "done"
                 /\ sstate = "failed"
                 /\ emitted # <<>>
                 /\ ~Last(emitted).ok

C4_Witness ==
    /\ mode = "stream"
    /\ sstate = "failed"
    /\ Len(frames) = 3
    /\ Last(frames).kind = "io_error"
    /\ Len(emitted) = 3
    /\ attempts = 1

C4_WitnessStatus ==
    /\ mode = "stream"
    /\ pc = "done"
    /\ history = << [transport |-> "ok", status |-> 429, body |-> "e1"] >>
    /\ attempts = 1

(* C5: when the byte stream ends without a message-stop, the returned
   sequence ends with an error item of kind incomplete stream, and not as a
   clean completion. *)
C5_IncompleteStream ==
    (mode = "stream" /\ frames # <<>> /\ Last(frames).kind = "eof") =>
        /\ sstate = "failed"
        /\ pc = "done"
        /\ emitted # <<>>
        /\ Last(emitted) = ErrItem(RequestFailed("stream_decode", 0, "incomplete stream"))

C5_Witness ==
    /\ mode = "stream"
    /\ Len(frames) = 3
    /\ frames[1].kind = "content_delta"
    /\ frames[2].kind = "content_delta"
    /\ frames[3].kind = "eof"
    /\ Len(emitted) = 3
    /\ sstate = "failed"

(* C6, as stated: for every sequence of events ending in message-stop, each
   emitted snapshot's text is a prefix of the next one's, and the final
   snapshot's text is the concatenation of all content-delta payloads. *)
C6_AnySequence ==
    (mode = "stream" /\ sstate = "ended") =>
        /\ \A i \in 1..(Len(emitted) - 1) : IsPrefix(emitted[i].text, emitted[i + 1].text)
        /\ FinalText(emitted) = ConcatDeltas(frames)

(* C6, amended: the same for every sequence of events ending in
   message-stop in which no message-start follows a content-delta. *)
C6_Monotone ==
    (mode = "stream" /\ sstate = "ended" /\ NoRestart(frames)) =>
        /\ \A i \in 1..Len(emitted) : emitted[i].ok
        /\ \A i \in 1..(Len(emitted) - 1) : IsPrefix(emitted[i].text, emitted[i + 1].text)
        /\ FinalText(emitted) = ConcatDeltas(frames)

C6_Witness ==
    /\ mode = "stream"
    /\ sstate = "ended"
    /\ NoRestart(frames)
    /\ Len(frames) = 5
    /\ frames[1].kind = "message_start"
    /\ frames[2].kind = "content_delta"
    /\ frames[3].kind = "content_delta"
    /\ frames[4].kind = "message_delta"
    /\ Len(emitted) = 4
    /\ Last(emitted).text = << "O", "K" >>

(* C7: when a batch call returns, every physical attempt it made has been
   reported to the RequestLog by a log.error or a log.write. *)
C7_EveryAttemptLogged ==
    BatchDone =>
        \A k \in 1..attempts :
            \E i \in 1..Len(log) : log[i].op \in {"error", "write"} /\ log[i].about = k

(* C8: a failing logging operation never changes the outcome: a batch call
   whose last answer is a 2xx that decodes returns success, a call fails at
   its start only for other reasons than the log, and the returned sequence
   never yields a log error in place of a snapshot. *)
C8_LoggingSwallowed ==
    /\ (BatchDone /\ history # <<>> /\ GoodAnswer(Last(history))) => result.state = "ok"
    /\ result.err.cause # "log_start"
    /\ \A i \in 1..Len(emitted) : emitted[i].err.cause # "log_write"

(* C9: a malformed frame ends the returned sequence with a stream-decode
   error as its last item; the items before it are the snapshots of the
   frames before it, one for each, and an item once yielded is never
   withdrawn or changed. *)
C9_MalformedFrame ==
    /\ [](  (mode = "stream" /\ frames # <<>> /\ Last(frames).kind = "malformed") =>
               /\ sstate = "failed"
               /\ pc = "done"
               /\ Len(emitted) = Len(frames)
               /\ Last(emitted) = ErrItem(RequestFailed("stream_decode", 0, "malformed frame"))
               /\ \A i \in 1..(Len(emitted) - 1) : emitted[i].ok )
    /\ [][ pc = "streaming" => IsPrefix(emitted, emitted') ]_vars

C9_Witness ==
    /\ mode = "stream"
    /\ Len(frames) = 3
    /\ frames[1].kind = "message_start"
    /\ frames[2].kind = "content_delta"
    /\ frames[3].kind = "malformed"
    /\ Len(emitted) = 3
    /\ emitted[2].text = << "O" >>
    /\ ~emitted[3].ok

BothSent ==
    /\ sentBatch # <<>>
    /\ sentStream # <<>>
    /\ sentBatch[1].args.system = sentStream[1].args.system
    /\ sentBatch[1].args.messages = sentStream[1].args.messages
    /\ sentBatch[1].args.tools = sentStream[1].args.tools

(* C10, as stated: for identical inputs the streaming payload is the batch
   payload with stream=true added, every other field being identical. *)
C10_OnlyStreamFlag ==
    BothSent =>
        /\ DOMAIN sentStream[1].payload = DOMAIN sentBatch[1].payload \cup {"stream"}
        /\ "stream" \notin DOMAIN sentBatch[1].payload
        /\ sentStream[1].payload["stream"] = TRUE
        /\ \A k \in DOMAIN sentBatch[1].payload :
              sentStream[1].payload[k] = sentBatch[1].payload[k]

(* C10, amended: the streaming payload is the batch payload with stream=true
   added, except for the fields taken from the model config: the batch
   payload carries the model of the model_config argument, the streaming
   payload that of the adapter's own model; when the two configs are the
   same every other field is identical. *)
C10_StreamFlagAndModel ==
    BothSent =>
        /\ DOMAIN sentStream[1].payload = DOMAIN sentBatch[1].payload \cup {"stream"}
        /\ "stream" \notin DOMAIN sentBatch[1].payload
        /\ sentStream[1].payload["stream"] = TRUE
        /\ \A k \in DOMAIN sentBatch[1].payload \ {"model", "max_tokens"} :
              sentStream[1].payload[k] = sentBatch[1].payload[k]
        /\ sentBatch[1].payload["model"] = sentBatch[1].args.cfg.model_name
        /\ sentStream[1].payload["model"] = SelfModel.model_name
        /\ sentBatch[1].args.cfg = SelfModel =>
              \A k \in DOMAIN sentBatch[1].payload :
                  sentStream[1].payload[k] = sentBatch[1].payload[k]

C10_Witness ==
    /\ BothSent
    /\ sentBatch[1].args.cfg.model_name = ZAI_DEFAULT_FAST_MODEL
    /\ sentBatch[1].args.system # ""
    /\ sentStream[1].payload["model"] = ZAI_DEFAULT_MODEL


(* C11: Scenario C.  After the frames message-start(input 10),
   content-delta O, content-delta K, message-delta(output 1), message-stop
   the returned sequence has ended with exactly 4 snapshots, the last one
   with text OK and usage input 10, output 1. *)
C11_ScenarioC ==
    (/\ mode = "stream"
     /\ frames = << Frame("message_start", <<>>, 10), Frame("content_delta", <<"O">>, 0),
                    Frame("content_delta", <<"K">>, 0), Frame("message_delta", <<>>, 1),
                    Frame("message_stop", <<>>, 0) >>)
    => /\ sstate = "ended"
       /\ Len(emitted) = 4
       /\ \A i \in 1..Len(emitted) : emitted[i].ok
       /\ Last(emitted).text = << "O", "K" >>
       /\ Last(emitted).usage = [input |-> 10, output |-> 1]

C11_Witness ==
    /\ mode = "stream"
    /\ Len(frames) = 5
    /\ frames[1] = Frame("message_start", <<>>, 10)
    /\ frames[2].text = << "O" >>
    /\ frames[3].text = << "K" >>
    /\ frames[4] = Frame("message_delta", <<>>, 1)
    /\ frames[5].kind = "message_stop"
    /\ Len(emitted) = 4
    /\ emitted[4] = Snapshot(<< "O", "K" >>, [input |-> 10, output |-> 1])


(* C13: Scenario D.  A batch call whose last answer is a 2xx document with
   no content array returns success with an assistant message of empty
   text. *)
C13_ScenarioD ==
    (/\ BatchDone
     /\ history # <<>>
     /\ Last(history) = [transport |-> "ok", status |-> 200, body |-> "nocontent"])
    => result.state = "ok" /\ result.text = <<>>


(* C15, as stated: of two consecutive snapshots of a streaming call the
   later one has strictly more text than the earlier one, for every sequence
   of events. *)
C15_StrictlyMore ==
    mode = "stream" =>
        \A i \in 1..(Len(emitted) - 1) :
            (emitted[i].ok /\ emitted[i + 1].ok) =>
                /\ IsPrefix(emitted[i].text, emitted[i + 1].text)
                /\ emitted[i].text # emitted[i + 1].text

(* C15, amended: the snapshots come in the order of the frames, one for each
   event; a snapshot made by a content-delta has strictly more text than the
   one before it, a snapshot made by a usage-only message-delta has the same
   text as the one before it with the output count updated, and only a
   message-start makes a snapshot that does not extend the one before it. *)
C15_GrowsOnDelta ==
    mode = "stream" =>
        /\ Len(emitted) <= Len(frames)
        /\ \A i \in 1..(Len(emitted) - 1) :
              (emitted[i].ok /\ emitted[i + 1].ok) =>
                  /\ frames[i + 1].kind = "content_delta" =>
                        /\ IsPrefix(emitted[i].text, emitted[i + 1].text)
                        /\ Len(emitted[i + 1].text) > Len(emitted[i].text)
                  /\ frames[i + 1].kind = "message_delta" =>
                        /\ emitted[i + 1].text = emitted[i].text
                        /\ emitted[i + 1].usage.output = frames[i + 1].n
                        /\ emitted[i + 1].usage.input = emitted[i].usage.input
                  /\ frames[i + 1].kind # "message_start" =>
                        IsPrefix(emitted[i].text, emitted[i + 1].text)

C15_Witness ==
    /\ mode = "stream"
    /\ Len(emitted) = 3
    /\ frames[1].kind = "message_start"
    /\ frames[2].kind = "content_delta"
    /\ frames[3].kind = "message_delta"
    /\ emitted[3].ok
    /\ emitted[2].text = emitted[3].text
    /\ emitted[2].usage # emitted[3].usage


(* C17: a batch call whose last answer is a 2xx body of the wrong shape
   (not JSON, or JSON whose message part or usage part does not decode)
   returns an error of kind RequestFailed, never a success value. *)
C17_ShapeMismatch ==
    (/\ BatchDone
     /\ history # <<>>
     /\ Last(history).transport = "ok"
     /\ Last(history).status \in 200..299
     /\ Last(history).body \in {"notjson", "badmessage", "badusage"})
    => /\ result.state = "err"
       /\ result.err.kind = "RequestFailed"
       /\ result.err.cause \in {"parse", "decode"}
       /\ result.text = <<>>

C17_Witness ==
    /\ BatchDone
    /\ Len(history) = 1
    /\ history[1] = [transport |-> "ok", status |-> 200, body |-> "badusage"]
    /\ result = Err(RequestFailed("decode", 0, "none"))


Writes(l) == SelectSeq(l, LAMBDA o : o.op = "write")

(* C18: the returned sequence ends in one way only.  An error item is its
   last item and closes it, the end of the decoder closes it without an
   item, and a closed sequence is not pulled again; every snapshot yielded
   was first given to log.write, in the decoder's order, and a snapshot whose
   log.write failed is not yielded: the log error is yielded in its place. *)
C18_SingleTermination ==
    mode = "stream" =>
        /\ \A i \in 1..(Len(emitted) - 1) : emitted[i].ok
        /\ (emitted # <<>> /\ ~Last(emitted).ok) => (sstate = "failed" /\ pc = "done")
        /\ sstate = "failed" => (emitted # <<>> /\ ~Last(emitted).ok)
        /\ sstate = "ended" => (pc = "done" /\ \A i \in 1..Len(emitted) : emitted[i].ok)
        /\ sstate \in {"ended", "failed", "dropped"} <=> (pc = "done" /\ result.state = "ok")
        /\ \A i \in 1..Len(emitted) :
              emitted[i].ok => (i <= Len(Writes(log)) /\ Writes(log)[i].okk)
        /\ \A i \in 1..Len(Writes(log)) :
              ~Writes(log)[i].okk =>
                  /\ i = Len(Writes(log))
                  /\ i = Len(emitted)
                  /\ emitted[i] = ErrItem(FromAnyhow("log_write"))
        /\ Len(Writes(log)) <= Len(emitted)

C18_Witness ==
    /\ mode = "stream"
    /\ sstate = "failed"
    /\ Len(emitted) = 3
    /\ emitted[1].ok
    /\ emitted[2].ok
    /\ emitted[3] = ErrItem(FromAnyhow("log_write"))
    /\ Len(Writes(log)) = 3

C18_WitnessEnded ==
    /\ mode = "stream"
    /\ sstate = "ended"
    /\ Len(emitted) = 2
    /\ Len(Writes(log)) = 2


----------------------------------------------------------------------------
(* The batch entry point alone, with the progress its runtime gives it: a
   POST that is ready is sent, the HTTP client (built with a timeout, lines
   50-59) answers or fails every POST, and the backoff sleep ends. *)

NextBatch ==
    \/ \E n \in 1..MaxN, cfg \in ModelConfigs, sys \in Systems, ms \in MessageLists,
          ts \in ToolLists, logOk \in BOOLEAN :
          complete_with_model(n, cfg, sys, ms, ts, logOk)
    \/ post_send
    \/ \E resp \in Responses, logOk \in BOOLEAN : post_recv(resp, logOk)
    \/ backoff
    \/ call_returns

SpecLive ==
    /\ Init
    /\ [][NextBatch]_vars
    /\ WF_vars(post_send)
    /\ WF_vars(\E resp \in Responses, logOk \in BOOLEAN : post_recv(resp, logOk))
    /\ WF_vars(backoff)

(* C16: every batch call terminates.  It never makes more than maxAttempts
   POSTs, a call that has started reaches its return whatever the vendor
   answers, and what it returns is a success or one error, which after a
   failed last attempt is that attempt's failure. *)
C16_Terminates ==
    /\ [](mode = "batch" => attempts <= maxAttempts)
    /\ [](BatchDone =>
            /\ result.state \in {"ok", "err"}
            /\ result.state = "err" => result.err # NoErr
            /\ (history # <<>> /\ ~(Last(history).transport = "ok" /\ Last(history).status \in 200..299))
                  => result = Err(ErrorOf(Last(history))))
    /\ (mode = "batch" /\ pc # "done") ~> (pc = "done")

C16_Witness ==
    /\ BatchDone
    /\ maxAttempts = 3
    /\ attempts = 3
    /\ history[1].status = 429
    /\ history[2].transport = "connect_failed"
    /\ history[3].transport = "body_failed"
    /\ result = Err(RequestFailed("transport", 0, "none"))


----------------------------------------------------------------------------
(* Two batch calls on the same adapter at the same time.  complete_with_model
   takes &self and keeps its payload, its RequestLog and the state of its
   retry loop in locals of the call, so each call has a record of its own. *)

ConcCalls == {1, 2}

ConcResponses ==
    { NoResponse,
      [transport |-> "ok", status |-> 429, body |-> "e1"],
      [transport |-> "ok", status |-> 400, body |-> "e1"],
      [transport |-> "ok", status |-> 200, body |-> "valid"],
      [transport |-> "ok", status |-> 200, body |-> "badmessage"] }

IdleCall ==
    [pc |-> "idle", max |-> 1, attempts |-> 0, inflight |-> 0, history |-> <<>>, result |-> Pending]

adapterVars ==
    <<maxAttempts, pc, mode, args, payload, attempts, inflight, history, log, result,
      frames, acc, usage, emitted, sstate, sentBatch, sentStream, calls>>

\* the caller starts the calls together (join!, spawned tasks)
conc_spawn ==
    /\ conc = NoConc
    /\ pc = "idle"
    /\ conc' = [c \in ConcCalls |-> IdleCall]
    /\ UNCHANGED <<adapterVars, cli>>

\* complete_with_model, lines 136-138, in call c
conc_call(c, n, logOk) ==
    /\ conc # NoConc
    /\ conc[c].pc = "idle"
    /\ conc' = [conc EXCEPT ![c] =
                   IF logOk
                   THEN [@ EXCEPT !.pc = "attempt", !.max = n]
                   ELSE [@ EXCEPT !.pc = "done", !.max = n, !.result = Err(FromAnyhow("log_start"))]]
    /\ UNCHANGED <<adapterVars, cli>>

\* a POST counted in a retry state that all calls share
conc_post_send_shared(c) ==
    /\ conc # NoConc
    /\ conc[c].pc = "attempt"
    /\ conc' = [d \in ConcCalls |->
                   IF d = c
                   THEN [conc[d] EXCEPT !.pc = "await", !.attempts = @ + 1, !.inflight = @ + 1]
                   ELSE [conc[d] EXCEPT !.attempts = @ + 1]]
    /\ UNCHANGED <<adapterVars, cli>>

\* lines 139-143 in call c: with_retry calls the closure, self.post sends
conc_post_send(c) ==
    /\ conc # NoConc
    /\ conc[c].pc = "attempt"
    /\ conc' = [conc EXCEPT ![c] =
                   [@ EXCEPT !.pc = "await", !.attempts = @ + 1, !.inflight = @ + 1]]
    /\ UNCHANGED <<adapterVars, cli>>

\* lines 139-155 in call c: the answer arrives
conc_post_recv(c, resp, logOk) ==
    /\ conc # NoConc
    /\ conc[c].pc = "await"
    /\ conc' = [conc EXCEPT ![c] =
                   IF post(resp).ok
                   THEN [@ EXCEPT !.pc = "done",
                                  !.inflight = @ - 1,
                                  !.history = Append(@, resp),
                                  !.result = decode_and_write(post(resp).json, SelfModel, logOk)]
                   ELSE IF with_retry_continues(post(resp).err, conc[c].attempts, conc[c].max)
                   THEN [@ EXCEPT !.pc = "backoff",
                                  !.inflight = @ - 1,
                                  !.history = Append(@, resp)]
                   ELSE [@ EXCEPT !.pc = "done",
                                  !.inflight = @ - 1,
                                  !.history = Append(@, resp),
                                  !.result = Err(post(resp).err)]]
    /\ UNCHANGED <<adapterVars, cli>>

\* with_retry sleeps between two attempts of call c
conc_backoff(c) ==
    /\ conc # NoConc
    /\ conc[c].pc = "backoff"
    /\ conc' = [conc EXCEPT ![c] = [@ EXCEPT !.pc = "attempt"]]
    /\ UNCHANGED <<adapterVars, cli>>

NextConc ==
    \/ conc_spawn
    \/ \E c \in ConcCalls, n \in 1..MaxN, logOk \in BOOLEAN : conc_call(c, n, logOk)
    \/ \E c \in ConcCalls : conc_post_send(c)
    \/ \E c \in ConcCalls, resp \in ConcResponses, logOk \in BOOLEAN : conc_post_recv(c, resp, logOk)
    \/ \E c \in ConcCalls : conc_backoff(c)

SpecConc == Init /\ [][NextConc]_vars

(* C12: a batch call never has two POSTs in flight: every POST it has made
   but the one in flight has been answered, a new POST is sent only from the
   start of the call or after the backoff that follows an answered attempt,
   and a step of one call leaves the state of every other call running on
   the same adapter as it was. *)
C12_Sequential ==
    /\ [](conc # NoConc =>
            \A c \in ConcCalls :
                /\ conc[c].inflight \in {0, 1}
                /\ conc[c].attempts = Len(conc[c].history) + conc[c].inflight
                /\ conc[c].attempts <= conc[c].max
                /\ conc[c].pc \in {"attempt", "backoff", "done", "idle"} => conc[c].inflight = 0)
    /\ [][ (conc # NoConc /\ conc' # NoConc) =>
              \A c \in ConcCalls :
                  conc'[c].attempts # conc[c].attempts =>
                      /\ conc'[c].attempts = conc[c].attempts + 1
                      /\ conc[c].inflight = 0
                      /\ conc[c].pc = "attempt"
                      /\ Len(conc[c].history) = conc[c].attempts ]_vars
    /\ [][ (conc # NoConc /\ conc' # NoConc) =>
              \A c, d \in ConcCalls :
                  (c # d /\ conc'[c] # conc[c]) => conc'[d] = conc[d] ]_vars

C12_Witness ==
    /\ conc # NoConc
    /\ conc[1].inflight = 1
    /\ conc[2].inflight = 1
    /\ conc[1].attempts = 2
    /\ conc[2].attempts = 1
    /\ conc[1].max = 3


----------------------------------------------------------------------------
(* Construction of the adapter from the configuration, and the commands of
   zai_configure.rs that write the configuration and then test it. *)

Unset == "(unset)"

Keys == {"k1", "k2"}

DefaultHost == "https://api.z.ai"

DefaultTimeoutSecs == 600

Hosts == {Unset, "https://proxy", "not a url"}

Timeouts == {Unset, "30", "junk"}

CliModels == {"glm-4.6", "glm-4.5"}

\* the ConfigKey list of metadata(): name, required, secret, default
ConfigKeys ==
    { [name |-> "ZAI_API_KEY", required |-> TRUE, secret |-> TRUE, default |-> Unset],
      [name |-> "ZAI_HOST", required |-> FALSE, secret |-> FALSE, default |-> "https://api.z.ai"],
      [name |-> "ZAI_TIMEOUT", required |-> FALSE, secret |-> FALSE, default |-> "600"] }

Advertised(name) == (CHOOSE k \in ConfigKeys : k.name = name).default

\* get_param::<u64>: the number a configured value stands for, Absent when it is none
parse_u64(v) ==
    CASE v = "600" -> 600
      [] v = "30" -> 30
      [] OTHER -> Absent

\* Config::get_secret: the environment variable first, then the secret store
get_secret(c) == IF c.env_key # Unset THEN c.env_key ELSE c.store_key

\* ApiClient::with_timeout builds the client for a host it can parse
with_timeout_ok(host) == host # "not a url"

NoInstance == [key |-> Unset, host |-> Unset, timeout |-> 0, model |-> Unset, fast |-> Unset]

NotBuilt == [ok |-> FALSE, inst |-> NoInstance, err |-> "none"]

\* a construction that goes on with an empty key when none is configured
from_env_default_key(c, model) ==
    LET host == IF c.host = Unset THEN DefaultHost ELSE c.host
        secs == IF parse_u64(c.timeout) = Absent THEN DefaultTimeoutSecs ELSE parse_u64(c.timeout)
    IN  IF ~with_timeout_ok(host)
        THEN [ok |-> FALSE, inst |-> NoInstance, err |-> "client"]
        ELSE [ok |-> TRUE,
              inst |-> [key |-> get_secret(c), host |-> host, timeout |-> secs,
                        model |-> model, fast |-> ZAI_DEFAULT_FAST_MODEL],
              err |-> "none"]

\* ZaiProvider::from_env, lines 42-68
from_env(c, model) ==
    LET host == IF c.host = Unset THEN DefaultHost ELSE c.host
        secs == IF parse_u64(c.timeout) = Absent THEN DefaultTimeoutSecs ELSE parse_u64(c.timeout)
    IN  IF get_secret(c) = Unset
        THEN [ok |-> FALSE, inst |-> NoInstance, err |-> "config:ZAI_API_KEY"]
        ELSE IF ~with_timeout_ok(host)
        THEN [ok |-> FALSE, inst |-> NoInstance, err |-> "client"]
        ELSE [ok |-> TRUE,
              inst |-> [key |-> get_secret(c), host |-> host, timeout |-> secs,
                        model |-> model, fast |-> ZAI_DEFAULT_FAST_MODEL],
              err |-> "none"]

\* what a construction read, and what it returned
construct(c, model) ==
    [c EXCEPT !.fe = [key |-> get_secret(c), host |-> c.host, timeout |-> c.timeout,
                      out |-> from_env(c, model)],
              !.adapter = IF from_env(c, model).ok THEN from_env(c, model) ELSE @]

TestAnswers == {"ok", "complete_err", "log_err", "no_provider", "bad_model"}

\* test_zai_config, lines 180-204: the configuration after it, and its verdict
test_zai_config(c, api_key, model, ans) ==
    LET c1 == [c EXCEPT !.env_key = api_key]
        c2 == construct(c1, model)
    IN  IF ans \in {"no_provider", "bad_model"}
        THEN [cfg |-> c1, ok |-> FALSE]
        ELSE IF ~c2.fe.out.ok
        THEN [cfg |-> c2, ok |-> FALSE]
        ELSE IF ans = "log_err"
        THEN [cfg |-> c2, ok |-> FALSE]
        ELSE [cfg |-> [c2 EXCEPT !.posts = @ \cup {c2.fe.out.inst.key}], ok |-> ans = "ok"]

\* a failed test that puts the previous value back
on_test_failure_rollback(c, field, prev) == [c EXCEPT ![field] = prev]

\* lines 123-126 and 171-174: the failure is printed and returned
on_test_failure(c, field, prev) == c

Command(name, arg, prev, hadKey, tested, res) ==
    [name |-> name, arg |-> arg, prev |-> prev, hadKey |-> hadKey, tested |-> tested, res |-> res]

\* the process starts with an environment and a stored configuration
cli_start ==
    /\ cli = NoCli
    /\ pc = "idle"
    /\ \E sk \in Keys \cup {Unset}, ek \in Keys \cup {Unset}, sm \in CliModels \cup {Unset},
          h \in Hosts, t \in Timeouts :
          cli' = [store_key |-> sk, env_key |-> ek, store_model |-> sm, host |-> h, timeout |-> t,
                  adapter |-> NotBuilt,
                  fe |-> [key |-> Unset, host |-> Unset, timeout |-> Unset, out |-> NotBuilt],
                  posts |-> {},
                  cmd |-> Command("none", Unset, Unset, FALSE, FALSE, "none")]
    /\ UNCHANGED <<adapterVars, conc>>

\* providers::create builds the adapter for the application
create_provider(model) ==
    /\ cli # NoCli
    /\ cli' = [construct(cli, model) EXCEPT
                  !.cmd = Command("create", model, Unset, get_secret(cli) # Unset, FALSE,
                                  IF from_env(cli, model).ok THEN "ok" ELSE "construct_failed")]
    /\ UNCHANGED <<adapterVars, conc>>

\* a call on the adapter the application holds sends the key of its client
adapter_post ==
    /\ cli # NoCli
    /\ cli.adapter.ok
    /\ cli' = [cli EXCEPT !.posts = @ \cup {cli.adapter.inst.key}]
    /\ UNCHANGED <<adapterVars, conc>>

\* handle_config_model, lines 110-137
handle_config_model(model, setOk, ans) ==
    /\ cli # NoCli
    /\ LET prev == cli.store_model
           hadKey == get_secret(cli) # Unset
           c1 == [cli EXCEPT !.store_model = model]
           t == test_zai_config(c1, get_secret(c1), model, ans)
       IN  cli' =
             IF ~setOk
             THEN [cli EXCEPT !.cmd = Command("model", model, prev, hadKey, FALSE, "write_failed")]
             ELSE IF ~hadKey
             THEN [c1 EXCEPT !.cmd = Command("model", model, prev, hadKey, FALSE, "ok")]
             ELSE IF t.ok
             THEN [t.cfg EXCEPT !.cmd = Command("model", model, prev, hadKey, TRUE, "ok")]
             ELSE [on_test_failure(t.cfg, "store_model", prev) EXCEPT
                      !.cmd = Command("model", model, prev, hadKey, TRUE, "test_failed")]
    /\ UNCHANGED <<adapterVars, conc>>

\* handle_config_key, lines 139-178
handle_config_key(key, setOk, ans) ==
    /\ cli # NoCli
    /\ LET prev == cli.store_key
           hadKey == get_secret(cli) # Unset
           c1 == [cli EXCEPT !.store_key = key]
           model == IF c1.store_model = Unset THEN "glm-4.6" ELSE c1.store_model
           t == test_zai_config(c1, key, model, ans)
       IN  cli' =
             IF ~setOk
             THEN [cli EXCEPT !.cmd = Command("key", key, prev, hadKey, FALSE, "write_failed")]
             ELSE IF t.ok
             THEN [t.cfg EXCEPT !.cmd = Command("key", key, prev, hadKey, TRUE, "ok")]
             ELSE [on_test_failure(t.cfg, "store_key", prev) EXCEPT
                      !.cmd = Command("key", key, prev, hadKey, TRUE, "test_failed")]
    /\ UNCHANGED <<adapterVars, conc>>

\* handle_zai_configure, lines 7-73
handle_zai_configure(key, model_choice, keyOk, modelOk, ans) ==
    /\ cli # NoCli
    /\ LET prev == cli.store_model
           hadKey == cli.env_key # Unset
           api_key == IF hadKey THEN cli.env_key ELSE key
           c1 == IF hadKey THEN cli ELSE [cli EXCEPT !.store_key = key]
           c2 == [c1 EXCEPT !.store_model = model_choice]
           t == test_zai_config(c2, api_key, model_choice, ans)
       IN  cli' =
             IF ~hadKey /\ ~keyOk
             THEN [cli EXCEPT !.cmd = Command("configure", model_choice, prev, hadKey, FALSE, "write_failed")]
             ELSE IF ~modelOk
             THEN [c1 EXCEPT !.cmd = Command("configure", model_choice, prev, hadKey, FALSE, "write_failed")]
             ELSE IF t.ok
             THEN [t.cfg EXCEPT !.cmd = Command("configure", model_choice, prev, hadKey, TRUE, "ok")]
             ELSE [t.cfg EXCEPT !.cmd = Command("configure", model_choice, prev, hadKey, TRUE, "test_failed")]
    /\ UNCHANGED <<adapterVars, conc>>

NextConfig ==
    \/ cli_start
    \/ \E model \in CliModels : create_provider(model)
    \/ adapter_post
    \/ \E model \in CliModels, setOk \in BOOLEAN, ans \in TestAnswers :
          handle_config_model(model, setOk, ans)
    \/ \E key \in Keys, setOk \in BOOLEAN, ans \in TestAnswers :
          handle_config_key(key, setOk, ans)
    \/ \E key \in Keys, model \in CliModels, keyOk \in BOOLEAN, modelOk \in BOOLEAN, ans \in TestAnswers :
          handle_zai_configure(key, model, keyOk, modelOk, ans)

SpecConfig == Init /\ [][NextConfig]_vars


(* C14: a construction that finds no ZAI_API_KEY returns the configuration
   error and no instance, so every instance holds a key and no POST is sent
   without one; a construction that finds the key but no ZAI_HOST or no
   ZAI_TIMEOUT uses the default that metadata() advertises for it, and with
   the host missing it succeeds. *)
C14_MissingCredential ==
    cli # NoCli =>
        /\ cli.fe.key = Unset /\ cli.fe.out # NotBuilt =>
              /\ ~cli.fe.out.ok
              /\ cli.fe.out.inst = NoInstance
              /\ cli.fe.out.err = "config:ZAI_API_KEY"
        /\ cli.adapter.ok => cli.adapter.inst.key \in Keys
        /\ cli.fe.out.ok => cli.fe.out.inst.key \in Keys
        /\ cli.posts \subseteq Keys
        /\ cli.fe.key # Unset /\ cli.fe.host = Unset =>
              /\ cli.fe.out.ok
              /\ cli.fe.out.inst.host = Advertised("ZAI_HOST")
        /\ cli.fe.out.ok /\ cli.fe.timeout = Unset =>
              cli.fe.out.inst.timeout = parse_u64(Advertised("ZAI_TIMEOUT"))
        /\ \A k \in ConfigKeys : k.required <=> k.name = "ZAI_API_KEY"

C14_Witness ==
    /\ cli # NoCli
    /\ cli.cmd.name = "create"
    /\ cli.fe.key = Unset
    /\ cli.fe.host = Unset
    /\ cli.fe.timeout = Unset
    /\ cli.cmd.res = "construct_failed"
    /\ cli.posts = {}

C14_WitnessDefaults ==
    /\ cli # NoCli
    /\ cli.cmd.name = "create"
    /\ cli.fe.key \in Keys
    /\ cli.fe.host = Unset
    /\ cli.fe.timeout = Unset
    /\ cli.fe.out.ok
    /\ cli.posts # {}

(* C19: when handle_config_model or handle_config_key returns the error of
   a failed test, the store holds the value just entered; when
   handle_config_model finds no API key, it does not run the test, and it
   returns Ok with the model stored unless the store refused the write. *)
C19_PersistedBeforeTest ==
    cli # NoCli =>
        /\ cli.cmd.name = "model" /\ cli.cmd.res = "test_failed" =>
              /\ cli.cmd.tested
              /\ cli.store_model = cli.cmd.arg
        /\ cli.cmd.name = "key" /\ cli.cmd.res = "test_failed" =>
              /\ cli.cmd.tested
              /\ cli.store_key = cli.cmd.arg
        /\ cli.cmd.name = "model" /\ ~cli.cmd.hadKey =>
              /\ ~cli.cmd.tested
              /\ cli.cmd.res \in {"ok", "write_failed"}
              /\ cli.cmd.res = "ok" => cli.store_model = cli.cmd.arg
              /\ cli.cmd.res = "write_failed" => cli.store_model = cli.cmd.prev

C19_Witness ==
    /\ cli # NoCli
    /\ cli.cmd.name = "model"
    /\ cli.cmd.res = "test_failed"
    /\ cli.cmd.prev = "glm-4.6"
    /\ cli.cmd.arg = "glm-4.5"
    /\ cli.store_model = "glm-4.5"

C19_WitnessKey ==
    /\ cli # NoCli
    /\ cli.cmd.name = "key"
    /\ cli.cmd.res = "test_failed"
    /\ cli.cmd.prev = "k1"
    /\ cli.store_key = "k2"

C19_WitnessNoKey ==
    /\ cli # NoCli
    /\ cli.cmd.name = "model"
    /\ ~cli.cmd.hadKey
    /\ cli.cmd.res = "ok"
    /\ cli.cmd.prev = Unset
    /\ cli.store_model = "glm-4.5"


====
